---- MODULE Spec2Model ----
(***************************************************************************)
(* Model of src/script.js: the scroll-triggered background switcher (an    *)
(* IntersectionObserver callback) and the rolling-voxel field (a pool of   *)
(* RollingVoxel actors advanced by the requestAnimationFrame callback      *)
(* animate).                                                               *)
(*                                                                         *)
(* Numbers.  JavaScript numbers are modelled in fixed point: the real 1.0  *)
(* is the integer One, so a lattice coordinate n is n * One and the half   *)
(* cell used by the pivot is One \div 2.  rollProgress, sines and cosines  *)
(* use the same scale, and an angle is measured in quarter turns, so       *)
(* Math.PI / 2 is One as well.  Milliseconds are whole numbers.            *)
(* Math.random() returns u / RandRes for a u in 0 .. RandRes - 1.          *)
(*                                                                         *)
(* Orientation.  mesh.quaternion is modelled by the rotation it denotes,   *)
(* written as the images of the three world axes (the columns of the       *)
(* rotation matrix, each a fixed-point vector).  Premultiplying by the     *)
(* quaternion of setFromAxisAngle(axis, angle) rotates every column about  *)
(* axis by angle.                                                          *)
(***************************************************************************)
EXTENDS Integers, Sequences, FiniteSets

VARIABLES
    voxels,           \* the pool: voxel index -> RollingVoxel fields
    lastTime,         \* let lastTime (line 183)
    deltaTime,        \* const deltaTime of the latest animate call (line 185)
    callbacks,        \* animate calls run so far, counted up to MaxCallbacks
    rafPending,       \* a requestAnimationFrame(animate) request is outstanding
    failure,          \* what threw in the latest animate call ("none", "step", "render")
    renders,          \* renderer.render calls issued by the latest animate call
    frameLog,         \* the calls the latest animate call made, in order (lines 187-189)
    visible,          \* section -> visible percentage the host computed last (30 before the first layout)
    previousThresholdIndex, \* section -> the observer's registration state
    queue,            \* IntersectionObserverEntry records queued for the callback
    entries,          \* the argument of the latest observer callback call (line 13)
    backgroundColor   \* body.style.backgroundColor

vars == <<voxels, lastTime, deltaTime, callbacks, rafPending, failure, renders,
          frameLog, visible, previousThresholdIndex, queue, entries, backgroundColor>>

voxelVars == <<voxels, lastTime, deltaTime, callbacks, rafPending, failure, renders,
               frameLog>>
watcherVars == <<visible, previousThresholdIndex, queue, entries, backgroundColor>>

----------------------------------------------------------------------------
(* Bounds of the model                                                     *)

\* SETTINGS.spawnRange (90 in the source), scaled down, in cells
spawnRange == 1
\* SETTINGS.maxWaitTime (4000 in the source), scaled down, in milliseconds
maxWaitTime == 3
\* resolution of the modelled Math.random()
RandRes == 4
\* largest time between two animation callbacks
MaxDelta == 1
\* timestamps above MaxTime are recorded as MaxTime
MaxTime == 1
\* animate calls that are counted, and all the calls of a run of FaultSpec
MaxCallbacks == 3
\* number of .bg-trigger sections in the document
NumSections == 2
\* undelivered intersection entries the queue holds beyond one per section
MaxBacklog == 0

----------------------------------------------------------------------------
(* Fixed-point numbers and vectors                                         *)

\* the real number 1.0; also this.size, one cell (line 77)
One == 2000

\* SETTINGS.moveSpeed = 0.06
moveSpeed == (6 * One) \div 100

\* SETTINGS.voxelCount many actors (50 in the source)
VoxelIds == {1}
voxelCount == Cardinality(VoxelIds)

Abs(n) == IF n < 0 THEN -n ELSE n

Vector3(x, y, z) == <<x * One, y * One, z * One>>

add(a, b) == <<a[1] + b[1], a[2] + b[2], a[3] + b[3]>>
sub(a, b) == <<a[1] - b[1], a[2] - b[2], a[3] - b[3]>>

\* v.multiplyScalar(s), s a fixed-point number
multiplyScalar(v, s) ==
    <<(v[1] * s) \div One, (v[2] * s) \div One, (v[3] * s) \div One>>

\* a . b and a x b of fixed-point vectors, as fixed-point values
dot(a, b) == (a[1] * b[1] + a[2] * b[2] + a[3] * b[3]) \div One
cross(a, b) ==
    << (a[2] * b[3] - a[3] * b[2]) \div One,
       (a[3] * b[1] - a[1] * b[3]) \div One,
       (a[1] * b[2] - a[2] * b[1]) \div One >>

\* Math.sin of an angle given in quarter turns (0 .. One), by Bhaskara's
\* rational approximation  sin x = 4x(180-x) / (40500 - x(180-x)),  x in
\* degrees; it is exact at 0 and at a quarter turn.
Sin(angle) ==
    LET u == (900 * angle) \div One          \* tenths of a degree
        p == (u * (1800 - u)) \div 100       \* x(180-x)
    IN  (One * 4 * p) \div (40500 - p)

Cos(angle) == Sin(One - angle)

\* v.applyAxisAngle(axis, angle): Rodrigues' rotation of v about the unit
\* vector axis,  v cos + (axis x v) sin + axis (axis . v)(1 - cos)
applyAxisAngle(v, axis, angle) ==
    LET c == Cos(angle)
        s == Sin(angle)
    IN  add(add(multiplyScalar(v, c),
                multiplyScalar(cross(axis, v), s)),
            multiplyScalar(axis, (dot(axis, v) * (One - c)) \div One))

\* the identity orientation, mesh.rotation.set(0, 0, 0)
Identity == <<Vector3(1, 0, 0), Vector3(0, 1, 0), Vector3(0, 0, 1)>>

\* q.premultiply(new Quaternion().setFromAxisAngle(axis, angle))
premultiplyAxisAngle(q, axis, angle) ==
    << applyAxisAngle(q[1], axis, angle),
       applyAxisAngle(q[2], axis, angle),
       applyAxisAngle(q[3], axis, angle) >>

\* Math.floor(a / b) for b > 0
Floor(a, b) == a \div b

\* Math.random() draws
Draws == 0 .. RandRes - 1

\* Math.random() for the draw u
random(u) == (u * One) \div RandRes

\* a field that no assignment has set yet
undefined == <<>>

----------------------------------------------------------------------------
(* RollingVoxel                                                            *)

\* reset() without Math.floor
reset_noFloor(v, ux, uz, uw) ==
    [v EXCEPT
        !.position = << (random(ux) - One \div 2) * spawnRange,
                        0,
                        (random(uz) - One \div 2) * spawnRange >>,
        !.quaternion = Identity,
        !.waitTimer = (random(uw) * maxWaitTime) \div One,
        !.isMoving = FALSE]

\* reset() that keeps the orientation
reset_keepRotation(v, ux, uz, uw) ==
    [v EXCEPT
        !.position = << Floor((random(ux) - One \div 2) * spawnRange, One) * One,
                        0,
                        Floor((random(uz) - One \div 2) * spawnRange, One) * One >>,
        !.waitTimer = (random(uw) * maxWaitTime) \div One,
        !.isMoving = FALSE]

\* reset(): a random lattice cell, identity orientation, a random wait
reset(v, ux, uz, uw) ==
    [v EXCEPT
        !.position = << Floor((random(ux) - One \div 2) * spawnRange, One) * One,
                        0,
                        Floor((random(uz) - One \div 2) * spawnRange, One) * One >>,
        !.quaternion = Identity,
        !.waitTimer = (random(uw) * maxWaitTime) \div One,
        !.isMoving = FALSE]

\* constructor: a new mesh (at the origin, unrotated), isMoving = false,
\* then reset(true)
RollingVoxel(ux, uz, uw) ==
    reset([isMoving |-> FALSE, position |-> <<0, 0, 0>>, quaternion |-> Identity,
           waitTimer |-> undefined, rollProgress |-> undefined,
           direction |-> undefined, axis |-> undefined, pivot |-> undefined,
           startPosition |-> undefined, startQuaternion |-> undefined],
          ux, uz, uw)

\* the four moves with the axis of Right turned the other way
dirs_wrongAxis ==
    << [vec |-> Vector3(1, 0, 0),  axis |-> Vector3(0, 0, 1)],
       [vec |-> Vector3(-1, 0, 0), axis |-> Vector3(0, 0, 1)],
       [vec |-> Vector3(0, 0, 1),  axis |-> Vector3(1, 0, 0)],
       [vec |-> Vector3(0, 0, -1), axis |-> Vector3(-1, 0, 0)] >>

\* the four moves of startRoll: Right, Left, Forward, Backward
dirs ==
    << [vec |-> Vector3(1, 0, 0),  axis |-> Vector3(0, 0, -1)],
       [vec |-> Vector3(-1, 0, 0), axis |-> Vector3(0, 0, 1)],
       [vec |-> Vector3(0, 0, 1),  axis |-> Vector3(1, 0, 0)],
       [vec |-> Vector3(0, 0, -1), axis |-> Vector3(-1, 0, 0)] >>

\* the pivot without the drop to the bottom edge
pivotOf_noDrop(position, direction) ==
    add(position, multiplyScalar(direction, One \div 2))

\* the pivot of startRoll: position + direction * size/2 + (0, -size/2, 0)
pivotOf(position, direction) ==
    add(add(position, multiplyScalar(direction, One \div 2)),
        <<0, -(One \div 2), 0>>)

\* startRoll(), ud the draw that picks the direction
startRoll(v, ud) ==
    LET move == dirs[Floor(random(ud) * 4, One) + 1]
    IN  [v EXCEPT
            !.isMoving = TRUE,
            !.rollProgress = 0,
            !.direction = move.vec,
            !.axis = move.axis,
            !.pivot = pivotOf(v.position, move.vec),
            !.startPosition = v.position,
            !.startQuaternion = v.quaternion]

\* the despawn test that also recycles a voxel on the edge of the range
pastRange_nonStrict(position) ==
    \/ Abs(position[1]) >= spawnRange * One
    \/ Abs(position[3]) >= spawnRange * One

\* the despawn test on x alone
pastRange_xOnly(position) ==
    Abs(position[1]) > spawnRange * One

\* the despawn test of animateRoll
pastRange(position) ==
    \/ Abs(position[1]) > spawnRange * One
    \/ Abs(position[3]) > spawnRange * One

\* the end step moving on from the interpolated position
endStep_fromCurrent(w, uw, ux, uz, uw2) ==
    LET snapped ==
            [w EXCEPT
                !.isMoving = FALSE,
                !.position = add(w.position, w.direction),
                !.quaternion = premultiplyAxisAngle(w.startQuaternion, w.axis, One),
                !.waitTimer = (random(uw) * maxWaitTime) \div One]
    IN  IF pastRange(snapped.position)
        THEN reset(snapped, ux, uz, uw2)
        ELSE snapped

\* the end step turning by the interpolated angle at the final progress
endStep_interpolated(w, uw, ux, uz, uw2) ==
    LET snapped ==
            [w EXCEPT
                !.isMoving = FALSE,
                !.position = add(w.startPosition, w.direction),
                !.quaternion = premultiplyAxisAngle(w.startQuaternion, w.axis,
                                                    w.rollProgress),
                !.waitTimer = (random(uw) * maxWaitTime) \div One]
    IN  IF pastRange(snapped.position)
        THEN reset(snapped, ux, uz, uw2)
        ELSE snapped

\* the end step of animateRoll: snap, draw a wait, recycle when past the range
endStep(w, uw, ux, uz, uw2) ==
    LET snapped ==
            [w EXCEPT
                !.isMoving = FALSE,
                !.position = add(w.startPosition, w.direction),
                !.quaternion = premultiplyAxisAngle(w.startQuaternion, w.axis, One),
                !.waitTimer = (random(uw) * maxWaitTime) \div One]
    IN  IF pastRange(snapped.position)
        THEN reset(snapped, ux, uz, uw2)
        ELSE snapped

\* the rolling branch composing onto the previous frame
rollStep_accumulate(w) ==
    LET angle == w.rollProgress
    IN  [w EXCEPT
            !.position = add(applyAxisAngle(sub(w.position, w.pivot), w.axis, angle),
                             w.pivot),
            !.quaternion = premultiplyAxisAngle(w.quaternion, w.axis, angle)]

\* the rolling branch with snapshots that are the live vectors, not clones
rollStep_aliased(w) ==
    LET angle == w.rollProgress
        position == add(applyAxisAngle(sub(w.startPosition, w.pivot), w.axis, angle),
                        w.pivot)
        quaternion == premultiplyAxisAngle(w.startQuaternion, w.axis, angle)
    IN  [w EXCEPT
            !.position = position,
            !.quaternion = quaternion,
            !.startPosition = position,
            !.startQuaternion = quaternion]

\* the rolling branch of animateRoll: recompute from the snapshot
rollStep(w) ==
    LET angle == w.rollProgress     \* (Math.PI / 2) * rollProgress, in quarter turns
    IN  [w EXCEPT
            !.position = add(applyAxisAngle(sub(w.startPosition, w.pivot), w.axis, angle),
                             w.pivot),
            !.quaternion = premultiplyAxisAngle(w.startQuaternion, w.axis, angle)]

\* animateRoll(); uw, ux, uz, uw2 are the draws of the end step
animateRoll(v, uw, ux, uz, uw2) ==
    LET w == [v EXCEPT !.rollProgress = v.rollProgress + moveSpeed]
    IN  IF w.rollProgress >= One
        THEN endStep(w, uw, ux, uz, uw2)
        ELSE rollStep(w)

\* the outcomes of animateRoll() over its random draws: the end step draws a
\* wait and, when it recycles, the three numbers of reset(), whose wait
\* replaces the first
animateRollOutcomes(v) ==
    IF v.rollProgress + moveSpeed >= One
    THEN IF pastRange(add(v.startPosition, v.direction))
         THEN { animateRoll(v, 0, ux, uz, uw2) :
                    ux \in Draws, uz \in Draws, uw2 \in Draws }
         ELSE { animateRoll(v, uw, 0, 0, 0) : uw \in Draws }
    ELSE { animateRoll(v, 0, 0, 0, 0) }

\* step running the wait timer down while the voxel rolls as well
step_alwaysTick(v, dt) ==
    LET w == [v EXCEPT !.waitTimer = v.waitTimer - dt]
    IN  IF v.isMoving
        THEN animateRollOutcomes(w)
        ELSE IF w.waitTimer <= 0
             THEN { startRoll(w, ud) : ud \in Draws }
             ELSE { w }

\* step that tests the decremented timer without storing it
step_noDecrement(v, dt) ==
    IF v.isMoving
    THEN animateRollOutcomes(v)
    ELSE LET w == [v EXCEPT !.waitTimer = v.waitTimer - dt]
         IN  IF w.waitTimer <= 0
             THEN { startRoll(w, ud) : ud \in Draws }
             ELSE { v }

\* step starting the roll only once the timer is below zero
step_strict(v, dt) ==
    IF v.isMoving
    THEN animateRollOutcomes(v)
    ELSE LET w == [v EXCEPT !.waitTimer = v.waitTimer - dt]
         IN  IF w.waitTimer < 0
             THEN { startRoll(w, ud) : ud \in Draws }
             ELSE { w }

\* step(deltaTime): the outcomes over the random draws
step(v, dt) ==
    IF v.isMoving
    THEN animateRollOutcomes(v)
    ELSE LET w == [v EXCEPT !.waitTimer = v.waitTimer - dt]
         IN  IF w.waitTimer <= 0
             THEN { startRoll(w, ud) : ud \in Draws }
             ELSE { w }

----------------------------------------------------------------------------
(* The animation loop                                                      *)

\* a forEach that leaves out the last voxel
RECURSIVE forEachStep_skipLast(_, _, _, _)
forEachStep_skipLast(pool, i, n, dt) ==
    IF i >= n
    THEN { pool }
    ELSE UNION { forEachStep_skipLast([pool EXCEPT ![i] = nv], i + 1, n, dt) :
                 nv \in step(pool[i], dt) }

\* voxels.forEach(v => v.step(deltaTime)) over the voxels i .. n of pool:
\* the set of pools that can result
RECURSIVE forEachStep(_, _, _, _)
forEachStep(pool, i, n, dt) ==
    IF i > n
    THEN { pool }
    ELSE UNION { forEachStep([pool EXCEPT ![i] = nv], i + 1, n, dt) :
                 nv \in step(pool[i], dt) }

\* voxels.length
length(pool) == Cardinality(DOMAIN pool)

\* the step calls voxels.forEach makes for the voxels i .. n, in order
RECURSIVE stepCalls(_, _, _)
stepCalls(i, n, dt) ==
    IF i > n
    THEN << >>
    ELSE <<[call |-> "step", voxel |-> i, deltaTime |-> dt]>>
             \o stepCalls(i + 1, n, dt)

renderCall == [call |-> "render", voxel |-> 0, deltaTime |-> 0]
requestCall == [call |-> "requestAnimationFrame", voxel |-> 0, deltaTime |-> 0]

\* the timestamps the host can pass to the next callback: they increase from
\* one callback to the next (the first one is the age of the page)
Timestamps == lastTime + 1 .. lastTime + MaxDelta

Min(a, b) == IF a < b THEN a ELSE b

\* animate(time) running to its end
Animate ==
    /\ rafPending
    /\ \E time \in Timestamps :
         /\ deltaTime' = time - lastTime
         /\ lastTime' = Min(time, MaxTime)
         /\ voxels' \in forEachStep(voxels, 1, length(voxels), time - lastTime)
         /\ frameLog' = stepCalls(1, length(voxels), time - lastTime)
                            \o <<renderCall, requestCall>>
    /\ renders' = 1
    /\ rafPending' = TRUE
    /\ failure' = "none"
    /\ callbacks' = Min(callbacks + 1, MaxCallbacks)
    /\ UNCHANGED watcherVars

\* animate(time) in which the step of voxel k throws: the voxels before k
\* have been stepped, nothing after the throw runs
AnimateStepThrows ==
    /\ rafPending
    /\ \E time \in Timestamps, k \in DOMAIN voxels :
         /\ deltaTime' = time - lastTime
         /\ lastTime' = Min(time, MaxTime)
         /\ voxels' \in forEachStep(voxels, 1, k - 1, time - lastTime)
         /\ frameLog' = stepCalls(1, k, time - lastTime)
    /\ renders' = 0
    /\ rafPending' = FALSE
    /\ failure' = "step"
    /\ callbacks' = Min(callbacks + 1, MaxCallbacks)
    /\ UNCHANGED watcherVars

\* animate(time) in which renderer.render throws
AnimateRenderThrows ==
    /\ rafPending
    /\ \E time \in Timestamps :
         /\ deltaTime' = time - lastTime
         /\ lastTime' = Min(time, MaxTime)
         /\ voxels' \in forEachStep(voxels, 1, length(voxels), time - lastTime)
         /\ frameLog' = stepCalls(1, length(voxels), time - lastTime)
                            \o <<renderCall>>
    /\ renders' = 0
    /\ rafPending' = FALSE
    /\ failure' = "render"
    /\ callbacks' = Min(callbacks + 1, MaxCallbacks)
    /\ UNCHANGED watcherVars

----------------------------------------------------------------------------
(* The trigger watcher                                                     *)

\* document.querySelectorAll('.bg-trigger')
sections == 1 .. NumSections

\* the visible percentages the model distinguishes: one below and one above
\* the threshold
Fractions == {30, 45}

\* options.threshold = 0.4, as a percentage
threshold == 40

\* entry.target.getAttribute('data-color'): the sections alternate between
\* two colours
getAttribute(target) == IF target % 2 = 1 THEN "colorA" ELSE "colorB"

\* the index of the first threshold greater than the ratio, or the number of
\* thresholds: 0 below options.threshold, 1 from it on
thresholdIndexOf(ratio) == IF ratio >= threshold THEN 1 ELSE 0

\* an entry that is intersecting as soon as any part of the section shows
Entry_anyOverlap(target, ratio, previous) ==
    [target |-> target,
     intersectionRatio |-> ratio,
     isIntersecting |-> ratio > 0,
     previousThresholdIndex |-> previous]

\* the IntersectionObserverEntry the host queues for target when its
\* threshold index changes; previousThresholdIndex records the index the
\* registration held before
Entry(target, ratio, previous) ==
    [target |-> target,
     intersectionRatio |-> ratio,
     isIntersecting |-> thresholdIndexOf(ratio) > 0,
     previousThresholdIndex |-> previous]

\* the entries of one update of the observed sections i .. n, in the order
\* the sections were observed
RECURSIVE newEntries(_, _, _, _)
newEntries(vis, prev, i, n) ==
    IF i > n
    THEN << >>
    ELSE IF thresholdIndexOf(vis[i]) # prev[i]
         THEN <<Entry(i, vis[i], prev[i])>> \o newEntries(vis, prev, i + 1, n)
         ELSE newEntries(vis, prev, i + 1, n)

\* a callback that stops at the first intersecting entry
RECURSIVE observerCallback_firstWins(_, _, _)
observerCallback_firstWins(batch, i, color) ==
    IF i > Len(batch)
    THEN color
    ELSE IF batch[i].isIntersecting
         THEN getAttribute(batch[i].target)
         ELSE observerCallback_firstWins(batch, i + 1, color)

\* the observer callback: entries.forEach(...) over the entries from i on,
\* color the background before the entry i
RECURSIVE observerCallback(_, _, _)
observerCallback(batch, i, color) ==
    IF i > Len(batch)
    THEN color
    ELSE observerCallback(batch, i + 1,
                          IF batch[i].isIntersecting
                          THEN getAttribute(batch[i].target)
                          ELSE color)

\* the host lays the page out (load, scroll, resize) and queues an entry for
\* every observed section whose threshold index changed
UpdateIntersections ==
    /\ \E vis \in [sections -> Fractions] :
         LET new == newEntries(vis, previousThresholdIndex, 1, NumSections)
         IN  /\ Len(queue) + Len(new) <= NumSections + MaxBacklog
             /\ vis # visible \/ new # << >>
             /\ visible' = vis
             /\ queue' = queue \o new
             /\ previousThresholdIndex' =
                    [s \in sections |-> thresholdIndexOf(vis[s])]
    /\ UNCHANGED <<entries, backgroundColor, voxelVars>>

\* the host delivers the queued entries to the observer callback
Notify ==
    /\ queue # << >>
    /\ backgroundColor' = observerCallback(queue, 1, backgroundColor)
    /\ entries' = queue
    /\ queue' = << >>
    /\ UNCHANGED <<visible, previousThresholdIndex, voxelVars>>

----------------------------------------------------------------------------
(* Specifications                                                          *)

\* the state after the script has run, with a pool of the voxels ids
InitPool(ids) ==
    /\ voxels \in [ids -> { RollingVoxel(ux, uz, uw) :
                            ux \in Draws, uz \in Draws, uw \in Draws }]
    /\ frameLog = << >>
    /\ lastTime = 0
    /\ deltaTime = 0
    /\ callbacks = 0
    /\ rafPending = TRUE
    /\ failure = "none"
    /\ renders = 0
    /\ visible = [s \in sections |-> 30]
    /\ previousThresholdIndex = [s \in sections |-> -1]
    /\ queue = << >>
    /\ entries = << >>
    /\ backgroundColor = ""

Init == InitPool(VoxelIds)

\* the voxel field: the animation loop
Next == Animate

Spec == Init /\ [][Next]_vars

\* the animation loop with callbacks that throw, over the first
\* MaxCallbacks callbacks
FaultNext ==
    /\ callbacks < MaxCallbacks
    /\ (Animate \/ AnimateStepThrows \/ AnimateRenderThrows)

FaultSpec == Init /\ [][FaultNext]_vars

\* a pool of two voxels, over the first MaxCallbacks callbacks
PoolIds == {1, 2}

PoolInit == InitPool(PoolIds)

PoolNext ==
    /\ callbacks < MaxCallbacks
    /\ Animate

PoolSpec == PoolInit /\ [][PoolNext]_vars

\* the trigger watcher
WatcherNext == UpdateIntersections \/ Notify

\* the watcher shares no state with the voxel field: one pool stands for all
WatcherInit ==
    /\ Init
    /\ voxels = [i \in VoxelIds |-> RollingVoxel(0, 0, 0)]

WatcherSpec == WatcherInit /\ [][WatcherNext]_vars

----------------------------------------------------------------------------
(* Properties                                                              *)

IsInteger(c) == c % One = 0

\* the voxel has completed or begun a roll: startRoll has set its snapshot
HasRolled(v) == v.startPosition # undefined

\* both horizontal coordinates of p lie in [-spawnRange, spawnRange]
InRange(p) ==
    /\ Abs(p[1]) <= spawnRange * One
    /\ Abs(p[3]) <= spawnRange * One

\* the cell the roll of v ends in, before any recycling
SnapTarget(v) ==
    << v.startPosition[1] + v.direction[1],
       v.startPosition[2] + v.direction[2],
       v.startPosition[3] + v.direction[3] >>

\* q differs from p in exactly one horizontal coordinate, by one cell
OneCellApart(p, q) ==
    /\ q[2] = p[2]
    /\ \/ Abs(q[1] - p[1]) = One /\ q[3] = p[3]
       \/ q[1] = p[1] /\ Abs(q[3] - p[3]) = One

\* C1: every voxel at rest (isMoving = false) has integer x, y and z.
TheoremC1 ==
    \A i \in VoxelIds :
        ~voxels[i].isMoving =>
            \A k \in 1 .. 3 : IsInteger(voxels[i].position[k])

\* a voxel at rest after a roll
WitnessC1 ==
    \E i \in VoxelIds : ~voxels[i].isMoving /\ HasRolled(voxels[i])

\* C2, as claimed: every Rolling -> Idle transition leaves the voxel one
\* cell from the start position of the roll, in exactly one horizontal
\* coordinate, with y unchanged.
ClaimC2 ==
    [][\A i \in VoxelIds :
          (voxels[i].isMoving /\ ~voxels'[i].isMoving) =>
              OneCellApart(voxels[i].startPosition, voxels'[i].position)]_vars

\* C2, amended: every Rolling -> Idle transition whose snap target lies in
\* the spawn range (so that the voxel is not recycled) leaves the voxel one
\* cell from the start position, in exactly one horizontal coordinate, with
\* y unchanged.
TheoremC2 ==
    [][\A i \in VoxelIds :
          (/\ voxels[i].isMoving
           /\ ~voxels'[i].isMoving
           /\ InRange(SnapTarget(voxels[i]))) =>
              OneCellApart(voxels[i].startPosition, voxels'[i].position)]_vars

\* a voxel at rest one cell from where its last roll began
WitnessC2 ==
    \E i \in VoxelIds :
        /\ ~voxels[i].isMoving
        /\ HasRolled(voxels[i])
        /\ OneCellApart(voxels[i].startPosition, voxels[i].position)

AxisAligned(q) ==
    /\ \A k \in 1 .. 3 :
          /\ \A j \in 1 .. 3 : q[k][j] \in {0, One, -One}
          /\ Cardinality({j \in 1 .. 3 : q[k][j] # 0}) = 1
    /\ dot(q[1], q[2]) = 0
    /\ q[3] = cross(q[1], q[2])

\* q is a rotation by a multiple of 90 degrees about one world axis: it is
\* axis aligned and leaves that axis fixed
AboutWorldAxis(q) ==
    /\ AxisAligned(q)
    /\ \E k \in 1 .. 3 : q[k] = Identity[k]

\* C4, as claimed: the orientation of every voxel at rest is a rotation by
\* a multiple of 90 degrees about a world axis.
ClaimC4 ==
    \A i \in VoxelIds :
        ~voxels[i].isMoving => AboutWorldAxis(voxels[i].quaternion)

\* C4, amended: the orientation of every voxel at rest is a composition of
\* rotations by multiples of 90 degrees about world axes (it maps every
\* world axis to plus or minus a world axis).
TheoremC4 ==
    \A i \in VoxelIds :
        ~voxels[i].isMoving => AxisAligned(voxels[i].quaternion)

\* a voxel at rest whose orientation is no rotation about a single world axis
WitnessC4 ==
    \E i \in VoxelIds :
        /\ ~voxels[i].isMoving
        /\ AxisAligned(voxels[i].quaternion)
        /\ ~AboutWorldAxis(voxels[i].quaternion)

\* C5: the step that starts a roll from the rest position p in direction d
\* sets pivot = p + d/2 - (0, 1/2, 0), and a roll that is not recycled ends
\* at exactly startPosition + direction.
TheoremC5 ==
    [][\A i \in VoxelIds :
          /\ (~voxels[i].isMoving /\ voxels'[i].isMoving) =>
                /\ 2 * voxels'[i].pivot[1] =
                       2 * voxels[i].position[1] + voxels'[i].direction[1]
                /\ 2 * voxels'[i].pivot[2] =
                       2 * voxels[i].position[2] + voxels'[i].direction[2] - One
                /\ 2 * voxels'[i].pivot[3] =
                       2 * voxels[i].position[3] + voxels'[i].direction[3]
          /\ (/\ voxels[i].isMoving
              /\ ~voxels'[i].isMoving
              /\ InRange(SnapTarget(voxels[i]))) =>
                voxels'[i].position = SnapTarget(voxels[i])]_vars

\* the roll from (0, 0, 0) in direction (+1, 0, 0): pivot (0.5, -0.5, 0),
\* end position (1, 0, 0)
WitnessC5 ==
    \E i \in VoxelIds :
        /\ ~voxels[i].isMoving
        /\ voxels[i].startPosition = <<0, 0, 0>>
        /\ voxels[i].direction = <<One, 0, 0>>
        /\ voxels[i].pivot = <<One \div 2, -(One \div 2), 0>>
        /\ voxels[i].position = <<One, 0, 0>>

\* C6: while a voxel is Rolling its progress lies in [0, 1] and its position
\* and orientation are the start snapshot turned about the pivot and the
\* axis by 90 degrees x progress; at progress 0 they are the snapshot.
TheoremC6 ==
    \A i \in VoxelIds :
        LET v == voxels[i]
        IN  v.isMoving =>
              /\ 0 <= v.rollProgress /\ v.rollProgress <= One
              /\ v.position =
                     add(applyAxisAngle(sub(v.startPosition, v.pivot),
                                        v.axis, v.rollProgress),
                         v.pivot)
              /\ v.quaternion =
                     premultiplyAxisAngle(v.startQuaternion, v.axis, v.rollProgress)
              /\ v.rollProgress = 0 =>
                     /\ v.position = v.startPosition
                     /\ v.quaternion = v.startQuaternion

\* a voxel in the middle of a roll, away from its start position
WitnessC6 ==
    \E i \in VoxelIds :
        /\ voxels[i].isMoving
        /\ voxels[i].rollProgress = 8 * moveSpeed
        /\ voxels[i].position # voxels[i].startPosition

\* the batch holds an intersecting entry
HasIntersecting(batch) ==
    \E k \in DOMAIN batch : batch[k].isIntersecting

\* the last intersecting entry of the batch
LastIntersecting(batch) ==
    batch[CHOOSE k \in DOMAIN batch :
              /\ batch[k].isIntersecting
              /\ \A j \in DOMAIN batch : j > k => ~batch[j].isIntersecting]

\* C7: after the callback has processed a batch holding an intersecting
\* entry, the background colour is the data-color of the last intersecting
\* entry of the batch.
TheoremC7 ==
    HasIntersecting(entries) =>
        backgroundColor = getAttribute(LastIntersecting(entries).target)

\* a processed batch of two intersecting entries of different colours
WitnessC7 ==
    /\ Len(entries) = 2
    /\ entries[1].isIntersecting
    /\ entries[2].isIntersecting
    /\ getAttribute(entries[1].target) # getAttribute(entries[2].target)
    /\ backgroundColor = getAttribute(entries[2].target)

\* the entry reports a section whose visible fraction went from below the
\* threshold (or from not yet observed) to the threshold or above
CrossedUpward(e) ==
    /\ e.previousThresholdIndex < 1
    /\ e.intersectionRatio >= threshold

\* C8: the background colour changes only in a step that delivers an entry
\* of an upward crossing; a batch of downward crossings leaves it unchanged.
TheoremC8 ==
    [][backgroundColor' # backgroundColor =>
          \E k \in DOMAIN queue : CrossedUpward(queue[k])]_vars

\* the batch of one downward crossing of section 1 (45% -> 30%) has been
\* processed and the background is still the colour of section 2
WitnessC8 ==
    /\ entries = <<[target |-> 1, intersectionRatio |-> 30,
                    isIntersecting |-> FALSE, previousThresholdIndex |-> 1]>>
    /\ backgroundColor = getAttribute(2)

\* C9, as claimed: after an animate call in which a step or the render
\* threw, the next callback is still scheduled.
ClaimC9 == failure # "none" => rafPending

\* C10, as claimed: the delta passed to the steps of the first animation
\* callback is zero.
ClaimC10 == callbacks = 1 => deltaTime = 0

\* C12: a step of an Idle voxel lowers waitTimer by exactly the delta; the
\* voxel becomes Rolling in that step exactly when the lowered timer is <= 0,
\* with progress 0; position and orientation do not change either way.
TheoremC12 ==
    [][\A i \in DOMAIN voxels :
          ~voxels[i].isMoving =>
              /\ voxels'[i].waitTimer = voxels[i].waitTimer - deltaTime'
              /\ voxels'[i].isMoving <=> (voxels[i].waitTimer - deltaTime' <= 0)
              /\ voxels'[i].isMoving => voxels'[i].rollProgress = 0
              /\ voxels'[i].position = voxels[i].position
              /\ voxels'[i].quaternion = voxels[i].quaternion]_vars

\* a voxel that has been stepped and is still waiting for its first roll
WitnessC12 ==
    \E i \in DOMAIN voxels :
        /\ callbacks >= 1
        /\ ~voxels[i].isMoving
        /\ ~HasRolled(voxels[i])
        /\ voxels[i].waitTimer > 0

\* C13, as claimed: every step of a Rolling voxel adds exactly moveSpeed to
\* rollProgress and leaves waitTimer unchanged; the roll completes in the
\* first step that brings rollProgress to 1 or more, the 17th.
ClaimC13 ==
    [][\A i \in DOMAIN voxels :
          voxels[i].isMoving =>
              /\ voxels'[i].rollProgress = voxels[i].rollProgress + moveSpeed
              /\ voxels'[i].waitTimer = voxels[i].waitTimer
              /\ ~voxels'[i].isMoving <=> (voxels'[i].rollProgress >= One)
              /\ ~voxels'[i].isMoving =>
                     voxels'[i].rollProgress = 17 * moveSpeed]_vars

\* C13, amended: every step of a Rolling voxel adds exactly moveSpeed to
\* rollProgress, whatever the delta; the roll completes in the first step
\* that brings rollProgress to 1 or more, the 17th; every step before that
\* one leaves waitTimer unchanged (the completing step draws a new one).
TheoremC13 ==
    [][\A i \in DOMAIN voxels :
          voxels[i].isMoving =>
              /\ voxels'[i].rollProgress = voxels[i].rollProgress + moveSpeed
              /\ voxels'[i].isMoving =>
                     /\ voxels'[i].waitTimer = voxels[i].waitTimer
                     /\ \A dt \in 0 .. MaxDelta + 1 :
                            voxels'[i] \in step(voxels[i], dt)
              /\ ~voxels'[i].isMoving <=> (voxels'[i].rollProgress >= One)
              /\ ~voxels'[i].isMoving =>
                     voxels'[i].rollProgress = 17 * moveSpeed]_vars

\* a voxel at rest whose roll took 17 steps and that drew a wait of 2 ms
WitnessC13 ==
    \E i \in DOMAIN voxels :
        /\ ~voxels[i].isMoving
        /\ HasRolled(voxels[i])
        /\ voxels[i].rollProgress = 17 * moveSpeed
        /\ voxels[i].waitTimer = 2

\* C14: the step that starts a roll captures position and orientation in
\* startPosition and startQuaternion, and no step of the Rolling voxel, the
\* completing one included, changes startPosition, startQuaternion, pivot,
\* direction or axis, while the live position and orientation of a voxel
\* that stays Rolling are those of the snapshot turned by the new progress.
TheoremC14 ==
    [][\A i \in DOMAIN voxels :
          /\ (~voxels[i].isMoving /\ voxels'[i].isMoving) =>
                /\ voxels'[i].startPosition = voxels[i].position
                /\ voxels'[i].startQuaternion = voxels[i].quaternion
          /\ voxels[i].isMoving =>
                /\ voxels'[i].startPosition = voxels[i].startPosition
                /\ voxels'[i].startQuaternion = voxels[i].startQuaternion
                /\ voxels'[i].pivot = voxels[i].pivot
                /\ voxels'[i].direction = voxels[i].direction
                /\ voxels'[i].axis = voxels[i].axis
                /\ voxels'[i].isMoving =>
                      /\ voxels'[i].position # voxels[i].position
                      /\ voxels'[i].quaternion # voxels[i].quaternion
                      /\ voxels'[i].position =
                             add(applyAxisAngle(sub(voxels[i].startPosition,
                                                    voxels[i].pivot),
                                                voxels[i].axis,
                                                voxels'[i].rollProgress),
                                 voxels[i].pivot)
                      /\ voxels'[i].quaternion =
                             premultiplyAxisAngle(voxels[i].startQuaternion,
                                                  voxels[i].axis,
                                                  voxels'[i].rollProgress)]_vars

\* a voxel two steps into a roll, moved and turned away from its snapshot
WitnessC14 ==
    \E i \in DOMAIN voxels :
        /\ voxels[i].isMoving
        /\ voxels[i].rollProgress = 2 * moveSpeed
        /\ voxels[i].position # voxels[i].startPosition
        /\ voxels[i].quaternion # voxels[i].startQuaternion

\* C15: the direction of every roll is one of (+1,0,0), (-1,0,0), (0,0,+1),
\* (0,0,-1); its axis is a horizontal unit vector perpendicular to it; and
\* turning startPosition by exactly 90 degrees about the axis around the
\* pivot gives exactly startPosition + direction.
TheoremC15 ==
    \A i \in DOMAIN voxels :
        LET v == voxels[i]
        IN  HasRolled(v) =>
              /\ v.direction \in { <<One, 0, 0>>, <<-One, 0, 0>>,
                                    <<0, 0, One>>, <<0, 0, -One>> }
              /\ v.axis[2] = 0
              /\ Abs(v.axis[1]) + Abs(v.axis[3]) = One
              /\ v.axis[1] * v.direction[1] + v.axis[3] * v.direction[3] = 0
              /\ add(applyAxisAngle(sub(v.startPosition, v.pivot), v.axis, One),
                     v.pivot)
                     = << v.startPosition[1] + v.direction[1],
                          v.startPosition[2],
                          v.startPosition[3] + v.direction[3] >>

\* a voxel rolling Backward about the axis (-1, 0, 0)
WitnessC15 ==
    \E i \in DOMAIN voxels :
        /\ voxels[i].isMoving
        /\ voxels[i].direction = <<0, 0, -One>>
        /\ voxels[i].axis = <<-One, 0, 0>>

\* C16: a roll that completes outside the spawn range leaves the voxel Idle, with
\* the identity orientation, y = 0 and a wait timer in [0, maxWaitTime).
TheoremC16 ==
    [][\A i \in DOMAIN voxels :
          (/\ voxels[i].isMoving
           /\ ~voxels'[i].isMoving
           /\ ~InRange(SnapTarget(voxels[i]))) =>
              /\ voxels'[i].rollProgress >= One
              /\ voxels'[i].quaternion =
                     << <<One, 0, 0>>, <<0, One, 0>>, <<0, 0, One>> >>
              /\ voxels'[i].position[2] = 0
              /\ 0 <= voxels'[i].waitTimer
              /\ voxels'[i].waitTimer < maxWaitTime]_vars

\* a recycled voxel: at rest with the identity orientation after a roll that
\* began turned and ended outside the range
WitnessC16 ==
    \E i \in DOMAIN voxels :
        /\ ~voxels[i].isMoving
        /\ HasRolled(voxels[i])
        /\ ~InRange(SnapTarget(voxels[i]))
        /\ voxels[i].startQuaternion # Identity
        /\ voxels[i].quaternion = Identity
        /\ voxels[i].position[2] = 0

\* C17: an animation callback steps every voxel of the pool exactly once, in
\* order and with the same delta, then renders once, then requests exactly
\* one next frame; the pool keeps its size.
TheoremC17 ==
    [][/\ DOMAIN voxels' = DOMAIN voxels
       /\ length(voxels') = length(voxels)
       /\ \A i \in DOMAIN voxels : voxels'[i] \in step(voxels[i], deltaTime')
       /\ Len(frameLog') = length(voxels) + 2
       /\ \A i \in DOMAIN voxels :
             frameLog'[i] = [call |-> "step", voxel |-> i,
                             deltaTime |-> deltaTime']
       /\ frameLog'[length(voxels) + 1].call = "render"
       /\ frameLog'[length(voxels) + 2].call = "requestAnimationFrame"
       /\ renders' = 1
       /\ rafPending']_vars

\* after a callback of a two-voxel pool: both were stepped with delta 1, one
\* is rolling and the other is waiting
WitnessC17 ==
    /\ length(voxels) = 2
    /\ callbacks >= 1
    /\ deltaTime = 1
    /\ Len(frameLog) = 4
    /\ frameLog[1].call = "step" /\ frameLog[2].call = "step"
    /\ frameLog[3].call = "render"
    /\ voxels[1].isMoving
    /\ ~voxels[2].isMoving
    /\ renders = 1

\* C18: every callback arrives with a positive delta and brings each voxel
\* strictly nearer to its next change of phase: a waiting voxel either starts
\* to roll (progress 0) or keeps a wait that is positive and strictly smaller
\* than before; a rolling voxel either comes to rest or has its progress
\* grown by moveSpeed, and a rolling voxel's progress is one of
\* 0, moveSpeed, .. , 16 * moveSpeed, so a roll has at most 17 steps. Hence
\* no voxel waits or rolls for ever while callbacks keep arriving.
TheoremC18 ==
    [][/\ deltaTime' > 0
       /\ \A i \in DOMAIN voxels :
             IF voxels[i].isMoving
             THEN /\ voxels[i].rollProgress \in
                        { k * moveSpeed : k \in 0 .. 16 }
                  /\ \/ ~voxels'[i].isMoving
                     \/ /\ voxels'[i].isMoving
                        /\ voxels'[i].rollProgress =
                               voxels[i].rollProgress + moveSpeed
                        /\ voxels'[i].rollProgress <= 16 * moveSpeed
             ELSE /\ voxels[i].waitTimer >= 0
                  /\ voxels[i].waitTimer < maxWaitTime
                  /\ \/ /\ voxels'[i].isMoving
                        /\ voxels'[i].rollProgress = 0
                     \/ /\ ~voxels'[i].isMoving
                        /\ voxels'[i].waitTimer > 0
                        /\ voxels'[i].waitTimer < voxels[i].waitTimer]_vars

\* a voxel that starts its next roll from the cell and the orientation its
\* previous roll left it in
WitnessC18 ==
    \E i \in DOMAIN voxels :
        /\ voxels[i].isMoving
        /\ voxels[i].rollProgress = 0
        /\ voxels[i].startQuaternion # Identity
        /\ voxels[i].waitTimer <= 0

\* p is a cell reset() can draw: Math.floor((Math.random() - 0.5) * spawnRange)
\* lies in [-spawnRange/2, spawnRange/2] for an even spawnRange such as the
\* program's 90; for an odd one the floor reaches -(spawnRange + 1)/2
InSpawnSquare(p) ==
    /\ \A k \in {1, 3} :
          /\ 2 * p[k] >= -(spawnRange + (spawnRange % 2)) * One
          /\ 2 * p[k] <= spawnRange * One
    /\ p[2] = 0

====
